---- MODULE Spec2Model ----
(***************************************************************************)
(* Model of scene/block.cpp: the block-type registry (Block), the cube     *)
(* face generator createBlockFaces, the block-type predicates, and the     *)
(* texture-offset loader loadUVCoordFromText.                              *)
(*                                                                         *)
(* Numbers: a texture coordinate is a fixed-point integer, 10000 units to  *)
(* 1.0, so that 1/16 is the integer 625 and every coordinate of the input  *)
(* lines used below is represented exactly.                                *)
(* Text: a line (QString) is a sequence of one-character strings.          *)
(***************************************************************************)
EXTENDS Integers, Sequences, FiniteSets, TLC

VARIABLES
    pc,             \* "idle" | "loop" (head of the while loop) | "done" | "crashed"
    consumed,       \* the lines s.readLine() has returned so far (the file prefix)
    readCoord,      \* bool readCoord
    coordCount,     \* int coordCount
    uvOffsets,      \* std::array<glm::vec2, 6> uvOffsets (index 0..5)
    currBlockType,  \* BlockType currBlockType
    BlockCollection,\* Block::BlockCollection : BlockType -> array<BlockFace, 6>
    call,           \* the last call of one of Block's pure helpers and its result
    odd             \* how many of the consumed lines are not plain (input bound)

vars == <<pc, consumed, readCoord, coordCount, uvOffsets, currBlockType,
          BlockCollection, call, odd>>

loaderVars == <<pc, consumed, readCoord, coordCount, uvOffsets, currBlockType,
                BlockCollection>>

-----------------------------------------------------------------------------
(* Block types and the static tables at the end of block.cpp               *)

BlockType ==
    {"GRASS", "DIRT", "STONE", "WATER", "SNOW", "LAVA", "BEDROCK", "ICE",
     "WOOD", "LEAF", "EMPTY"}

\* text of the keys of blockTypeMap
Str_GRASS   == <<"G", "R", "A", "S", "S">>
Str_DIRT    == <<"D", "I", "R", "T">>
Str_STONE   == <<"S", "T", "O", "N", "E">>
Str_WATER   == <<"W", "A", "T", "E", "R">>
Str_SNOW    == <<"S", "N", "O", "W">>
Str_LAVA    == <<"L", "A", "V", "A">>
Str_BEDROCK == <<"B", "E", "D", "R", "O", "C", "K">>
Str_ICE     == <<"I", "C", "E">>
Str_WOOD    == <<"W", "O", "O", "D">>
Str_LEAF    == <<"L", "E", "A", "F">>

blockTypeMap ==
    (Str_GRASS :> "GRASS") @@ (Str_DIRT :> "DIRT") @@ (Str_STONE :> "STONE") @@
    (Str_WATER :> "WATER") @@ (Str_SNOW :> "SNOW") @@ (Str_LAVA :> "LAVA") @@
    (Str_BEDROCK :> "BEDROCK") @@ (Str_ICE :> "ICE") @@ (Str_WOOD :> "WOOD") @@
    (Str_LEAF :> "LEAF")

\* mutant: leaves listed as transparent
transparentBlockTypes_WithLeaf == {"EMPTY", "WATER", "ICE", "LEAF"}

transparentBlockTypes == {"EMPTY", "WATER", "ICE"}

\* mutant: lava left out of the animatable types
animatableBlockTypes_WaterOnly == {"WATER"}

animatableBlockTypes == {"WATER", "LAVA"}

liquidBlockTypes == {"WATER", "LAVA"}

-----------------------------------------------------------------------------
(* The block-type predicates                                               *)

isOpaque(type) == ~(type \in transparentBlockTypes)

isTransparent(type) == type \in transparentBlockTypes

isLiquid(type) == type \in liquidBlockTypes

isAnimatable(type) == type \in animatableBlockTypes

\* glm::vec2(1.f) and glm::vec2(-1.f): both components set to the scalar
getAnimatableFlag(type) ==
    IF isAnimatable(type) THEN <<1, 1>> ELSE <<-1, -1>>

isEmpty(type) == type = "EMPTY"

-----------------------------------------------------------------------------
(* createBlockFaces                                                        *)

\* the float 1.f in fixed-point units
One == 10000

\* mutant: a tile of one eighth of the atlas
length_Eighth == 2 * 625

\* float length = 1.f / 16.f, in fixed-point units
length == 625

vec2(x, y) == <<x, y>>

Vec2Add(a, b) == <<a[1] + b[1], a[2] + b[2]>>

VertexData(pos, uv) == [pos |-> pos, uv |-> uv]

BlockFace(direction, normal, v1, v2, v3, v4) ==
    [direction |-> direction, normal |-> normal,
     v1 |-> v1, v2 |-> v2, v3 |-> v3, v4 |-> v4]

\* mutant: the ZNEG face listed as seen from +z (clockwise from outside)
createBlockFaces_ClockwiseZNEG(uv) ==
    (0 :> BlockFace("XPOS", <<1, 0, 0, 0>>,
              VertexData(<<1, 0, 1, 1>>, uv[0]),
              VertexData(<<1, 0, 0, 1>>, Vec2Add(uv[0], vec2(length, 0))),
              VertexData(<<1, 1, 0, 1>>, Vec2Add(uv[0], vec2(length, length))),
              VertexData(<<1, 1, 1, 1>>, Vec2Add(uv[0], vec2(0, length))))) @@
    (1 :> BlockFace("XNEG", <<-1, 0, 0, 0>>,
              VertexData(<<0, 0, 0, 1>>, uv[1]),
              VertexData(<<0, 0, 1, 1>>, Vec2Add(uv[1], vec2(length, 0))),
              VertexData(<<0, 1, 1, 1>>, Vec2Add(uv[1], vec2(length, length))),
              VertexData(<<0, 1, 0, 1>>, Vec2Add(uv[1], vec2(0, length))))) @@
    (2 :> BlockFace("YPOS", <<0, 1, 0, 0>>,
              VertexData(<<0, 1, 1, 1>>, uv[2]),
              VertexData(<<1, 1, 1, 1>>, Vec2Add(uv[2], vec2(length, 0))),
              VertexData(<<1, 1, 0, 1>>, Vec2Add(uv[2], vec2(length, length))),
              VertexData(<<0, 1, 0, 1>>, Vec2Add(uv[2], vec2(0, length))))) @@
    (3 :> BlockFace("YNEG", <<0, -1, 0, 0>>,
              VertexData(<<0, 0, 0, 1>>, uv[3]),
              VertexData(<<1, 0, 0, 1>>, Vec2Add(uv[3], vec2(length, 0))),
              VertexData(<<1, 0, 1, 1>>, Vec2Add(uv[3], vec2(length, length))),
              VertexData(<<0, 0, 1, 1>>, Vec2Add(uv[3], vec2(0, length))))) @@
    (4 :> BlockFace("ZPOS", <<0, 0, 1, 0>>,
              VertexData(<<0, 0, 1, 1>>, uv[4]),
              VertexData(<<1, 0, 1, 1>>, Vec2Add(uv[4], vec2(length, 0))),
              VertexData(<<1, 1, 1, 1>>, Vec2Add(uv[4], vec2(length, length))),
              VertexData(<<0, 1, 1, 1>>, Vec2Add(uv[4], vec2(0, length))))) @@
    (5 :> BlockFace("ZNEG", <<0, 0, -1, 0>>,
              VertexData(<<0, 0, 0, 1>>, uv[5]),
              VertexData(<<1, 0, 0, 1>>, Vec2Add(uv[5], vec2(length, 0))),
              VertexData(<<1, 1, 0, 1>>, Vec2Add(uv[5], vec2(length, length))),
              VertexData(<<0, 1, 0, 1>>, Vec2Add(uv[5], vec2(0, length)))))

\* mutant: the XNEG face with the normal of the XPOS face
createBlockFaces_CopiedNormal(uv) ==
    (0 :> BlockFace("XPOS", <<1, 0, 0, 0>>,
              VertexData(<<1, 0, 1, 1>>, uv[0]),
              VertexData(<<1, 0, 0, 1>>, Vec2Add(uv[0], vec2(length, 0))),
              VertexData(<<1, 1, 0, 1>>, Vec2Add(uv[0], vec2(length, length))),
              VertexData(<<1, 1, 1, 1>>, Vec2Add(uv[0], vec2(0, length))))) @@
    (1 :> BlockFace("XNEG", <<1, 0, 0, 0>>,
              VertexData(<<0, 0, 0, 1>>, uv[1]),
              VertexData(<<0, 0, 1, 1>>, Vec2Add(uv[1], vec2(length, 0))),
              VertexData(<<0, 1, 1, 1>>, Vec2Add(uv[1], vec2(length, length))),
              VertexData(<<0, 1, 0, 1>>, Vec2Add(uv[1], vec2(0, length))))) @@
    (2 :> BlockFace("YPOS", <<0, 1, 0, 0>>,
              VertexData(<<0, 1, 1, 1>>, uv[2]),
              VertexData(<<1, 1, 1, 1>>, Vec2Add(uv[2], vec2(length, 0))),
              VertexData(<<1, 1, 0, 1>>, Vec2Add(uv[2], vec2(length, length))),
              VertexData(<<0, 1, 0, 1>>, Vec2Add(uv[2], vec2(0, length))))) @@
    (3 :> BlockFace("YNEG", <<0, -1, 0, 0>>,
              VertexData(<<0, 0, 0, 1>>, uv[3]),
              VertexData(<<1, 0, 0, 1>>, Vec2Add(uv[3], vec2(length, 0))),
              VertexData(<<1, 0, 1, 1>>, Vec2Add(uv[3], vec2(length, length))),
              VertexData(<<0, 0, 1, 1>>, Vec2Add(uv[3], vec2(0, length))))) @@
    (4 :> BlockFace("ZPOS", <<0, 0, 1, 0>>,
              VertexData(<<0, 0, 1, 1>>, uv[4]),
              VertexData(<<1, 0, 1, 1>>, Vec2Add(uv[4], vec2(length, 0))),
              VertexData(<<1, 1, 1, 1>>, Vec2Add(uv[4], vec2(length, length))),
              VertexData(<<0, 1, 1, 1>>, Vec2Add(uv[4], vec2(0, length))))) @@
    (5 :> BlockFace("ZNEG", <<0, 0, -1, 0>>,
              VertexData(<<1, 0, 0, 1>>, uv[5]),
              VertexData(<<0, 0, 0, 1>>, Vec2Add(uv[5], vec2(length, 0))),
              VertexData(<<0, 1, 0, 1>>, Vec2Add(uv[5], vec2(length, length))),
              VertexData(<<1, 1, 0, 1>>, Vec2Add(uv[5], vec2(0, length)))))

createBlockFaces(uv) ==
    (0 :> BlockFace("XPOS", <<1, 0, 0, 0>>,
              VertexData(<<1, 0, 1, 1>>, uv[0]),
              VertexData(<<1, 0, 0, 1>>, Vec2Add(uv[0], vec2(length, 0))),
              VertexData(<<1, 1, 0, 1>>, Vec2Add(uv[0], vec2(length, length))),
              VertexData(<<1, 1, 1, 1>>, Vec2Add(uv[0], vec2(0, length))))) @@
    (1 :> BlockFace("XNEG", <<-1, 0, 0, 0>>,
              VertexData(<<0, 0, 0, 1>>, uv[1]),
              VertexData(<<0, 0, 1, 1>>, Vec2Add(uv[1], vec2(length, 0))),
              VertexData(<<0, 1, 1, 1>>, Vec2Add(uv[1], vec2(length, length))),
              VertexData(<<0, 1, 0, 1>>, Vec2Add(uv[1], vec2(0, length))))) @@
    (2 :> BlockFace("YPOS", <<0, 1, 0, 0>>,
              VertexData(<<0, 1, 1, 1>>, uv[2]),
              VertexData(<<1, 1, 1, 1>>, Vec2Add(uv[2], vec2(length, 0))),
              VertexData(<<1, 1, 0, 1>>, Vec2Add(uv[2], vec2(length, length))),
              VertexData(<<0, 1, 0, 1>>, Vec2Add(uv[2], vec2(0, length))))) @@
    (3 :> BlockFace("YNEG", <<0, -1, 0, 0>>,
              VertexData(<<0, 0, 0, 1>>, uv[3]),
              VertexData(<<1, 0, 0, 1>>, Vec2Add(uv[3], vec2(length, 0))),
              VertexData(<<1, 0, 1, 1>>, Vec2Add(uv[3], vec2(length, length))),
              VertexData(<<0, 0, 1, 1>>, Vec2Add(uv[3], vec2(0, length))))) @@
    (4 :> BlockFace("ZPOS", <<0, 0, 1, 0>>,
              VertexData(<<0, 0, 1, 1>>, uv[4]),
              VertexData(<<1, 0, 1, 1>>, Vec2Add(uv[4], vec2(length, 0))),
              VertexData(<<1, 1, 1, 1>>, Vec2Add(uv[4], vec2(length, length))),
              VertexData(<<0, 1, 1, 1>>, Vec2Add(uv[4], vec2(0, length))))) @@
    (5 :> BlockFace("ZNEG", <<0, 0, -1, 0>>,
              VertexData(<<1, 0, 0, 1>>, uv[5]),
              VertexData(<<0, 0, 0, 1>>, Vec2Add(uv[5], vec2(length, 0))),
              VertexData(<<0, 1, 0, 1>>, Vec2Add(uv[5], vec2(length, length))),
              VertexData(<<1, 1, 0, 1>>, Vec2Add(uv[5], vec2(0, length)))))

\* the overload without arguments
createBlockFacesDefault ==
    createBlockFaces([i \in 0..5 |-> vec2(0, 0)])

-----------------------------------------------------------------------------
(* QString operations used by loadUVCoordFromText                          *)

size(line) == Len(line)

startsWith(line, c) == Len(line) >= 1 /\ line[1] = c

\* index of the first c in s at or after position p, or 0
RECURSIVE IndexOf(_, _, _)
IndexOf(s, c, p) ==
    IF p > Len(s) THEN 0
    ELSE IF s[p] = c THEN p
    ELSE IndexOf(s, c, p + 1)

\* QString::split(sep), Qt::KeepEmptyParts: the pieces between separators
RECURSIVE split(_, _)
split(s, sep) ==
    LET i == IndexOf(s, sep, 1) IN
    IF i = 0 THEN <<s>>
    ELSE <<SubSeq(s, 1, i - 1)>> \o split(SubSeq(s, i + 1, Len(s)), sep)

DigitVal ==
    ("0" :> 0) @@ ("1" :> 1) @@ ("2" :> 2) @@ ("3" :> 3) @@ ("4" :> 4) @@
    ("5" :> 5) @@ ("6" :> 6) @@ ("7" :> 7) @@ ("8" :> 8) @@ ("9" :> 9)

IsDigits(s) == \A i \in 1..Len(s) : s[i] \in DOMAIN DigitVal

RECURSIVE IntVal(_)
IntVal(s) ==
    IF s = <<>> THEN 0
    ELSE IntVal(SubSeq(s, 1, Len(s) - 1)) * 10 + DigitVal[s[Len(s)]]

\* the fraction digits d1 d2 d3 d4 as d1/10 + ... in fixed-point units
FracVal(s) ==
    LET d(i) == IF i <= Len(s) THEN DigitVal[s[i]] ELSE 0
    IN  (d(1) * One) \div 10 + (d(2) * One) \div 100 +
        (d(3) * One) \div 1000 + (d(4) * One) \div 10000

\* QString::toDouble for unsigned decimal text "ddd", "ddd.ddd", ".ddd";
\* text that is no number gives 0.0
toDouble(s) ==
    LET dot == IndexOf(s, ".", 1)
        ip  == IF dot = 0 THEN s ELSE SubSeq(s, 1, dot - 1)
        fp  == IF dot = 0 THEN <<>> ELSE SubSeq(s, dot + 1, Len(s))
    IN  IF IsDigits(ip) /\ IsDigits(fp) /\ Len(ip) + Len(fp) >= 1
        THEN IntVal(ip) * One + FracVal(fp)
        ELSE 0

-----------------------------------------------------------------------------
(* loadUVCoordFromText                                                     *)

\* value of a local that has been declared and not yet assigned
UninitVec2 == <<-1, -1>>

UninitBlockType == "UNINIT"

\* what QList::operator[] yields for an index past the end: the call traps
\* (assertion, segmentation fault) or hands back whatever text lies there
Trap == <<"<trap>">>

At(list, i, oob) == IF i < Len(list) THEN list[i + 1] ELSE oob

\* mutant: std::unordered_map::insert, which keeps an entry already there
insertNewUVCoord_KeepFirst(bc, blockType, uv) ==
    bc @@ (blockType :> createBlockFaces(uv))

\* mutant: the registry assigned anew instead of the one entry
insertNewUVCoord_Replace(bc, blockType, uv) ==
    (blockType :> createBlockFaces(uv))

\* BlockCollection[blockType] = Block::createBlockFaces(uv)
insertNewUVCoord(bc, blockType, uv) ==
    (blockType :> createBlockFaces(uv)) @@ bc

\* mutant: only empty lines skipped
IsSkipped_EmptyOnly(line) == size(line) = 0

\* if (line.size() == 0 || line.startsWith("#")) continue;
IsSkipped(line) == size(line) = 0 \/ startsWith(line, "#")

\* the readCoord branch: uvOffsets[coordCount] = vec2(...); coordCount += 1
StoreCoord(st, line, oob) ==
    LET parts == split(line, <<" ">>[1])
        a     == At(parts, 0, oob)
        b     == At(parts, 1, oob)
    IN  IF a = Trap \/ b = Trap
        THEN [st EXCEPT !.pc = "crashed"]
        ELSE [st EXCEPT !.uvOffsets[st.coordCount] = vec2(toDouble(a), toDouble(b)),
                        !.coordCount = @ + 1]

\* the else-if branch: identify which block
IdentifyBlock(st, line) ==
    IF line \in DOMAIN blockTypeMap
    THEN [st EXCEPT !.currBlockType = blockTypeMap[line], !.readCoord = TRUE]
    ELSE st

\* mutant: coordCount not set back to 0 after a block is stored
StoreBlock_NoReset(st) ==
    IF st.coordCount = 6
    THEN [st EXCEPT !.BlockCollection =
                        insertNewUVCoord(@, st.currBlockType, st.uvOffsets),
                    !.readCoord = FALSE]
    ELSE st

\* if (coordCount == 6) { insertNewUVCoord(...); uvOffsets.empty(); ... }
\* std::array::empty() only answers whether the array has size 0
StoreBlock(st) ==
    IF st.coordCount = 6
    THEN [st EXCEPT !.BlockCollection =
                        insertNewUVCoord(@, st.currBlockType, st.uvOffsets),
                    !.coordCount = 0,
                    !.readCoord = FALSE]
    ELSE st

\* one iteration of the while loop on the line just read
LoopBody(st, line, oob) ==
    IF IsSkipped(line) THEN st
    ELSE LET s1 == IF st.readCoord THEN StoreCoord(st, line, oob)
                   ELSE IdentifyBlock(st, line)
         IN  IF s1.pc = "crashed" THEN s1 ELSE StoreBlock(s1)

LoaderState ==
    [pc |-> pc, readCoord |-> readCoord, coordCount |-> coordCount,
     uvOffsets |-> uvOffsets, currBlockType |-> currBlockType,
     BlockCollection |-> BlockCollection]

-----------------------------------------------------------------------------
(* Input space                                                             *)

\* lines of the file that are not plain (see IsPlain)
MaxOdd == 1

\* lines in the file
MaxLines == 15

Line_empty   == <<>>
Line_comment == <<"#">> \o Str_GRASS
Line_EMPTY   == <<"E", "M", "P", "T", "Y">>
Line_0_0     == <<"0", " ", "0">>
Line_uv      == <<"0", ".", "0", "6", "2", "5", " ", "0", ".", "5">>

InputNames == {Str_GRASS, Str_WATER}

InputLines ==
    InputNames \cup {Line_empty, Line_comment, Line_EMPTY, Line_0_0, Line_uv}

\* the text an out-of-range QList read may hand back
OobTexts == {<<"0", ".", "5">>}

\* a plain file is a sequence of blocks, each a name line and six "0 0" lines
IsPlain(line) ==
    /\ ~IsSkipped(line)
    /\ IF readCoord THEN line = Line_0_0 ELSE line \in InputNames

\* the stream can still return this line within the bounds
CanRead(line) ==
    /\ line \in InputLines
    /\ Len(consumed) < MaxLines
    /\ IsPlain(line) \/ odd < MaxOdd

-----------------------------------------------------------------------------
(* State machine                                                           *)

\* the enumerator with value 0, key of the value-initialised pair in
\* BlockCollection = { {} }
ZeroBlockTypes == {"EMPTY", "GRASS"}

\* a default-constructed BlockFace
DefaultBlockFace ==
    BlockFace("NONE", <<0, 0, 0, 0>>,
              VertexData(<<0, 0, 0, 0>>, vec2(0, 0)),
              VertexData(<<0, 0, 0, 0>>, vec2(0, 0)),
              VertexData(<<0, 0, 0, 0>>, vec2(0, 0)),
              VertexData(<<0, 0, 0, 0>>, vec2(0, 0)))

DefaultFaces == [i \in 0..5 |-> DefaultBlockFace]

NoCall == [op |-> "none", arg |-> "none", ret |-> "none"]

Init ==
    /\ pc = "idle"
    /\ consumed = <<>>
    /\ readCoord = FALSE
    /\ coordCount = 0
    /\ uvOffsets = [i \in 0..5 |-> UninitVec2]
    /\ currBlockType = UninitBlockType
    /\ \E z \in ZeroBlockTypes : BlockCollection = (z :> DefaultFaces)
    /\ call = NoCall
    /\ odd = 0

\* loadUVCoordFromText is entered: the file is opened, the locals declared
Open ==
    /\ pc = "idle"
    /\ pc' = "loop"
    /\ readCoord' = FALSE
    /\ coordCount' = 0
    /\ uvOffsets' = [i \in 0..5 |-> UninitVec2]
    /\ currBlockType' = UninitBlockType
    /\ UNCHANGED <<consumed, BlockCollection, call, odd>>

\* s.readLine() returned line; the loop body runs on it
Iterate(line, oob) ==
    LET n == LoopBody(LoaderState, line, oob) IN
    /\ consumed' = Append(consumed, line)
    /\ odd' = IF IsPlain(line) THEN odd ELSE odd + 1
    /\ pc' = n.pc
    /\ readCoord' = n.readCoord
    /\ coordCount' = n.coordCount
    /\ uvOffsets' = n.uvOffsets
    /\ currBlockType' = n.currBlockType
    /\ BlockCollection' = n.BlockCollection
    /\ UNCHANGED call

SkipLine(line) ==
    /\ pc = "loop"
    /\ IsSkipped(line)
    /\ CanRead(line)
    /\ Iterate(line, Trap)

CoordLine(line) ==
    /\ pc = "loop"
    /\ ~IsSkipped(line) /\ readCoord
    /\ Len(split(line, <<" ">>[1])) >= 2
    /\ CanRead(line)
    /\ Iterate(line, Trap)

\* a line without a space read as a coordinate: split(" ")[1] is out of range
ShortCoordLine(line, oob) ==
    /\ pc = "loop"
    /\ ~IsSkipped(line) /\ readCoord
    /\ Len(split(line, <<" ">>[1])) < 2
    /\ CanRead(line)
    /\ Iterate(line, oob)

NameLine(line) ==
    /\ pc = "loop"
    /\ ~IsSkipped(line) /\ ~readCoord
    /\ line \in DOMAIN blockTypeMap
    /\ CanRead(line)
    /\ Iterate(line, Trap)

OtherLine(line) ==
    /\ pc = "loop"
    /\ ~IsSkipped(line) /\ ~readCoord
    /\ line \notin DOMAIN blockTypeMap
    /\ CanRead(line)
    /\ Iterate(line, Trap)

\* s.atEnd(): the loop and the function end; the locals and the stream go
\* out of scope, the static BlockCollection stays
AtEnd ==
    /\ pc = "loop"
    /\ pc' = "done"
    /\ consumed' = <<>>
    /\ readCoord' = FALSE
    /\ coordCount' = 0
    /\ uvOffsets' = [i \in 0..5 |-> UninitVec2]
    /\ currBlockType' = UninitBlockType
    /\ odd' = 0
    /\ UNCHANGED <<BlockCollection, call>>

Next ==
    \/ Open
    \/ \E line \in InputLines : SkipLine(line)
    \/ \E line \in InputLines : CoordLine(line)
    \/ \E line \in InputLines : \E oob \in OobTexts \cup {Trap} : ShortCoordLine(line, oob)
    \/ \E line \in InputLines : NameLine(line)
    \/ \E line \in InputLines : OtherLine(line)
    \/ AtEnd

Spec == Init /\ [][Next]_vars

-----------------------------------------------------------------------------
(* Calls of Block's pure helpers, with arguments from bounded sets         *)

ApiOffsets == {vec2(0, 0), vec2(length, 8 * length)}

Returned(op, arg, ret) == [op |-> op, arg |-> arg, ret |-> ret]

CallCreateBlockFaces(uv) ==
    /\ pc = "idle"
    /\ call' = Returned("createBlockFaces", uv, createBlockFaces(uv))
    /\ UNCHANGED <<loaderVars, odd>>

CallCreateBlockFacesDefault ==
    /\ pc = "idle"
    /\ call' = Returned("createBlockFaces()", "none", createBlockFacesDefault)
    /\ UNCHANGED <<loaderVars, odd>>

CallIsOpaque(type) ==
    /\ pc = "idle"
    /\ call' = Returned("isOpaque", type, isOpaque(type))
    /\ UNCHANGED <<loaderVars, odd>>

CallIsTransparent(type) ==
    /\ pc = "idle"
    /\ call' = Returned("isTransparent", type, isTransparent(type))
    /\ UNCHANGED <<loaderVars, odd>>

CallIsLiquid(type) ==
    /\ pc = "idle"
    /\ call' = Returned("isLiquid", type, isLiquid(type))
    /\ UNCHANGED <<loaderVars, odd>>

CallIsAnimatable(type) ==
    /\ pc = "idle"
    /\ call' = Returned("isAnimatable", type, isAnimatable(type))
    /\ UNCHANGED <<loaderVars, odd>>

CallGetAnimatableFlag(type) ==
    /\ pc = "idle"
    /\ call' = Returned("getAnimatableFlag", type, getAnimatableFlag(type))
    /\ UNCHANGED <<loaderVars, odd>>

CallIsEmpty(type) ==
    /\ pc = "idle"
    /\ call' = Returned("isEmpty", type, isEmpty(type))
    /\ UNCHANGED <<loaderVars, odd>>

NextApi ==
    \/ \E uv \in [0..5 -> ApiOffsets] : CallCreateBlockFaces(uv)
    \/ CallCreateBlockFacesDefault
    \/ \E type \in BlockType : CallIsOpaque(type)
    \/ \E type \in BlockType : CallIsTransparent(type)
    \/ \E type \in BlockType : CallIsLiquid(type)
    \/ \E type \in BlockType : CallIsAnimatable(type)
    \/ \E type \in BlockType : CallGetAnimatableFlag(type)
    \/ \E type \in BlockType : CallIsEmpty(type)

SpecApi == Init /\ [][NextApi]_vars

-----------------------------------------------------------------------------
(* Properties of the block-type predicates (checked under SpecApi)         *)

\* C3: isOpaque(t) is true exactly when isTransparent(t) is false: the
\* transparent types are exactly EMPTY, WATER and ICE, every other type
\* (LAVA and LEAF included) is opaque, and isEmpty(t) implies
\* isTransparent(t).
C3_OpaqueTransparent ==
    /\ call.op = "isTransparent" =>
           (call.ret <=> call.arg \in {"EMPTY", "WATER", "ICE"})
    /\ call.op = "isOpaque" =>
           (call.ret <=> call.arg \in
               {"GRASS", "DIRT", "STONE", "SNOW", "LAVA", "BEDROCK", "WOOD", "LEAF"})
    /\ call.op = "isEmpty" =>
           (call.ret => call.arg \in {"EMPTY", "WATER", "ICE"})
    /\ call.op \in {"isTransparent", "isOpaque", "isEmpty"} =>
           call.arg \in {"GRASS", "DIRT", "STONE", "WATER", "SNOW", "LAVA",
                         "BEDROCK", "ICE", "WOOD", "LEAF", "EMPTY"}

C3_Witness ==
    call.op = "isOpaque" /\ call.arg = "LEAF" /\ call.ret = TRUE

\* C7: getAnimatableFlag(t) is vec2(1) when t is animatable and vec2(-1)
\* when it is not; the animatable types are exactly WATER and LAVA, and
\* they are the liquid types.
C7_AnimatableFlag ==
    /\ call.op = "getAnimatableFlag" =>
           call.ret = IF call.arg \in {"WATER", "LAVA"} THEN <<1, 1>> ELSE <<-1, -1>>
    /\ call.op = "isAnimatable" => (call.ret <=> call.arg \in {"WATER", "LAVA"})
    /\ call.op = "isLiquid" => (call.ret <=> call.arg \in {"WATER", "LAVA"})

C7_Witness ==
    call.op = "getAnimatableFlag" /\ call.arg = "LAVA" /\ call.ret = <<1, 1>>

-----------------------------------------------------------------------------
(* Properties of createBlockFaces (checked under SpecApi)                  *)

FaceCalled == call.op \in {"createBlockFaces", "createBlockFaces()"}

Verts(f) == <<f.v1, f.v2, f.v3, f.v4>>

Xyz(v) == <<v[1], v[2], v[3]>>

Sub3(a, b) == <<a[1] - b[1], a[2] - b[2], a[3] - b[3]>>

Cross(a, b) ==
    <<a[2] * b[3] - a[3] * b[2], a[3] * b[1] - a[1] * b[3], a[1] * b[2] - a[2] * b[1]>>

\* axis (1 = x, 2 = y, 3 = z) and side (1 positive, 0 negative) of a direction
AxisOf == [XPOS |-> 1, XNEG |-> 1, YPOS |-> 2, YNEG |-> 2, ZPOS |-> 3, ZNEG |-> 3]

SideOf == [XPOS |-> 1, XNEG |-> 0, YPOS |-> 1, YNEG |-> 0, ZPOS |-> 1, ZNEG |-> 0]

CounterClockwise(f) ==
    LET p(k) == Xyz(Verts(f)[k].pos)
        n    == Xyz(f.normal)
    IN  /\ \A k \in 1..4 :
              /\ Verts(f)[k].pos[4] = 1
              /\ \A c \in 1..3 : p(k)[c] \in {0, 1}
              /\ p(k)[AxisOf[f.direction]] = SideOf[f.direction]
        /\ Cardinality({p(k) : k \in 1..4}) = 4
        /\ Cross(Sub3(p(2), p(1)), Sub3(p(3), p(2))) = n
        /\ Cross(Sub3(p(3), p(2)), Sub3(p(4), p(3))) = n
        /\ Cross(Sub3(p(4), p(3)), Sub3(p(1), p(4))) = n

\* C4: in the result of createBlockFaces the vertices v1..v4 of every face
\* are the four distinct corners of the unit cube on that face's plane,
\* arranged counter-clockwise seen from outside: the cross product of each
\* pair of consecutive edges equals the face's stored normal.
C4_CounterClockwise ==
    FaceCalled => \A i \in 0..5 : CounterClockwise(call.ret[i])

C4_Witness ==
    /\ call.op = "createBlockFaces"
    /\ call.ret[5].direction = "ZNEG"
    /\ call.ret[5].v1.pos = <<1, 0, 0, 1>>

\* C5: createBlockFaces returns exactly six faces whose direction tags are,
\* by index 0..5, XPOS, XNEG, YPOS, YNEG, ZPOS, ZNEG, each with the signed
\* unit axis vector of its direction as normal, w = 0.
C5_DirectionsAndNormals ==
    FaceCalled =>
        /\ DOMAIN call.ret = 0..5
        /\ [i \in 0..5 |-> call.ret[i].direction] =
               (0 :> "XPOS") @@ (1 :> "XNEG") @@ (2 :> "YPOS") @@
               (3 :> "YNEG") @@ (4 :> "ZPOS") @@ (5 :> "ZNEG")
        /\ [i \in 0..5 |-> call.ret[i].normal] =
               (0 :> <<1, 0, 0, 0>>) @@ (1 :> <<-1, 0, 0, 0>>) @@
               (2 :> <<0, 1, 0, 0>>) @@ (3 :> <<0, -1, 0, 0>>) @@
               (4 :> <<0, 0, 1, 0>>) @@ (5 :> <<0, 0, -1, 0>>)

C5_Witness ==
    /\ call.op = "createBlockFaces"
    /\ call.arg[3] # call.arg[4]
    /\ call.ret[3].direction = "YNEG"

\* the four texture coordinates of a face whose offset is off: off + (0,0),
\* (L,0), (L,L), (0,L) with 16 L = 1
TileCorners(off) ==
    LET L == One \div 16 IN
    <<off, <<off[1] + L, off[2]>>, <<off[1] + L, off[2] + L>>, <<off[1], off[2] + L>>>>

FaceUVs(f) == <<f.v1.uv, f.v2.uv, f.v3.uv, f.v4.uv>>

\* C6: the UVs of face i are computed from uvOffsets[i] only: v1..v4 carry
\* uvOffsets[i] + (0,0), (L,0), (L,L), (0,L) with L = 1/16; the overload
\* without arguments gives what six offsets (0,0) give.
C6_TileUVs ==
    /\ call.op = "createBlockFaces" =>
           \A i \in 0..5 : FaceUVs(call.ret[i]) = TileCorners(call.arg[i])
    /\ call.op = "createBlockFaces()" =>
           \A i \in 0..5 : FaceUVs(call.ret[i]) = TileCorners(<<0, 0>>)

C6_Witness ==
    /\ call.op = "createBlockFaces"
    /\ call.arg[0] = <<0, 0>>
    /\ call.arg[1] # <<0, 0>>
    /\ call.ret[1].v3.uv = <<2 * (One \div 16), 9 * (One \div 16)>>

-----------------------------------------------------------------------------
(* Properties of loadUVCoordFromText (checked under Spec)                  *)

\* the file read so far as the format describes it, independent of the loop:
\* comment and empty lines dropped, then name lines each followed by six
\* coordinate lines
IsCommentOrEmpty(l) == IF Len(l) = 0 THEN TRUE ELSE l[1] = "#"

IsContent(l) == ~IsCommentOrEmpty(l)

Strip(file) == SelectSeq(file, IsContent)

NameKeys == DOMAIN blockTypeMap

\* positions in s of the name lines that start a complete definition
RECURSIVE CompleteDefs(_, _)
CompleteDefs(s, p) ==
    IF p > Len(s) THEN {}
    ELSE IF s[p] \in NameKeys
         THEN IF p + 6 <= Len(s) THEN {p} \cup CompleteDefs(s, p + 7) ELSE {}
    ELSE CompleteDefs(s, p + 1)

\* position in s of the name line of the definition still being read, or 0
RECURSIVE OpenDef(_, _)
OpenDef(s, p) ==
    IF p > Len(s) THEN 0
    ELSE IF s[p] \in NameKeys
         THEN IF p + 6 <= Len(s) THEN OpenDef(s, p + 7) ELSE p
    ELSE OpenDef(s, p + 1)

Max(S) == CHOOSE x \in S : \A y \in S : y <= x

\* the offsets the coordinate lines of the input denote
CoordOf ==
    (Line_0_0 :> <<0, 0>>) @@ (Line_uv :> <<One \div 16, One \div 2>>)

DefsOf(s, t) == {p \in CompleteDefs(s, 1) : blockTypeMap[s[p]] = t}

\* C1: for every block type whose name line (read while no block is being
\* read) is followed by six non-skipped coordinate lines, the registry entry
\* is createBlockFaces of exactly those six offsets in file order (1st line
\* -> XPOS ... 6th -> ZNEG); the last complete definition of a type is the
\* one stored.
C1_LastDefinitionStored ==
    pc = "loop" =>
        LET s == Strip(consumed) IN
        \A t \in BlockType :
            DefsOf(s, t) # {} =>
                LET d == Max(DefsOf(s, t)) IN
                /\ t \in DOMAIN BlockCollection
                /\ \A i \in 0..5 :
                       s[d + 1 + i] \in DOMAIN CoordOf =>
                           BlockCollection[t][i] =
                               createBlockFaces([j \in 0..5 |-> CoordOf[s[d + 1 + i]]])[i]

\* a type defined twice with different offsets, the second definition stored
C1_Witness ==
    /\ pc = "loop"
    /\ LET s == Strip(consumed) IN
       /\ Cardinality(DefsOf(s, "GRASS")) = 2
       /\ \E i \in 1..6 : \E d \in DefsOf(s, "GRASS") :
              /\ d # Max(DefsOf(s, "GRASS"))
              /\ s[d + i] = Line_uv
              /\ s[Max(DefsOf(s, "GRASS")) + i] = Line_0_0
    /\ BlockCollection["GRASS"] = createBlockFaces([j \in 0..5 |-> <<0, 0>>])

\* what one iteration on the line makes of state st, over every outcome of
\* an out-of-range read (a run that trapped has no further state)
Outcomes(st, line) ==
    {n \in {LoopBody(st, line, o) :
                o \in IF st.readCoord /\ IndexOf(line, " ", 1) = 0
                      THEN OobTexts \cup {Trap} ELSE {Trap}} : n.pc = "loop"}

\* the states the loop can be in at its head after reading lines[p..]
RECURSIVE Run(_, _, _)
Run(S, lines, p) ==
    IF p > Len(lines) THEN S
    ELSE Run(UNION {Outcomes(st, lines[p]) : st \in S}, lines, p + 1)

\* the state in which the loop is entered, given the registry's keys then
Started(emptyKey) ==
    {[pc |-> "loop", readCoord |-> FALSE, coordCount |-> 0,
      uvOffsets |-> [i \in 0..5 |-> UninitVec2],
      currBlockType |-> UninitBlockType,
      BlockCollection |-> (z :> DefaultFaces)] :
        z \in {y \in ZeroBlockTypes : (y = "EMPTY") = emptyKey}}

LastLine == consumed'[Len(consumed')]

LineRead == pc = "loop" /\ Len(consumed') = Len(consumed) + 1

\* C2: empty lines and lines starting with '#' are skipped wherever they
\* occur: the loop's state after any sequence of lines is one that the
\* sequence without those lines gives, and reading such a line changes
\* neither readCoord nor coordCount (nor anything else of the loader).
C2_SkippedLinesHaveNoEffect ==
    [][/\ (pc' = "loop" /\ Strip(consumed') # consumed') =>
              LoaderState' \in Run(Started("EMPTY" \in DOMAIN BlockCollection'),
                                   Strip(consumed'), 1)
       /\ (LineRead /\ IsCommentOrEmpty(LastLine)) =>
              /\ pc' = "loop"
              /\ UNCHANGED <<readCoord, coordCount, uvOffsets, currBlockType,
                             BlockCollection>>]_vars

\* a comment line was read between the coordinate lines of a block that
\* was then completed and stored
C2_Witness ==
    /\ pc = "loop"
    /\ \E k \in 2..Len(consumed) :
          /\ IsCommentOrEmpty(consumed[k])
          /\ consumed[k - 1] = Line_0_0
          /\ Len(consumed) >= k + 1
    /\ CompleteDefs(Strip(consumed), 1) # {}
    /\ coordCount = 0 /\ ~readCoord
    /\ Len(Strip(consumed)) = 7

Range(f) == {f[x] : x \in DOMAIN f}

\* C8: at the start of every loop iteration 0 <= coordCount <= 5, and
\* coordCount > 0 implies readCoord; so every write uvOffsets[coordCount]
\* has an index in 0..5, and insertNewUVCoord is only called with a
\* currBlockType assigned from blockTypeMap, never the uninitialised one.
C8_CoordCountInRange ==
    pc = "loop" =>
        /\ coordCount \in 0..5
        /\ coordCount > 0 => readCoord
        /\ readCoord => currBlockType \in Range(blockTypeMap)
        /\ UninitBlockType \notin DOMAIN BlockCollection
        /\ DOMAIN BlockCollection \subseteq BlockType

C8_Witness ==
    /\ pc = "loop"
    /\ coordCount = 5 /\ readCoord
    /\ currBlockType = "WATER"
    /\ "GRASS" \in DOMAIN BlockCollection
    /\ BlockCollection["GRASS"] # DefaultFaces

Entry(bc, t) == IF t \in DOMAIN bc THEN {bc[t]} ELSE {}

\* C9: BlockCollection changes only when the sixth coordinate line of a
\* block is read, and then only in the entry of the type named by the most
\* recent name line; every other entry, the one of EMPTY included, stays as
\* it was (so an unfinished block and lines that are no names change
\* nothing).
C9_OnlyNamedEntryChanges ==
    [][/\ BlockCollection' # BlockCollection =>
              LET s == Strip(consumed) IN
              /\ LineRead /\ ~IsCommentOrEmpty(LastLine)
              /\ OpenDef(s, 1) # 0
              /\ Len(s) = OpenDef(s, 1) + 5
              /\ \A t \in (BlockType \cup DOMAIN BlockCollection \cup DOMAIN BlockCollection')
                        \ {blockTypeMap[s[OpenDef(s, 1)]]} :
                     Entry(BlockCollection', t) = Entry(BlockCollection, t)
       /\ Entry(BlockCollection', "EMPTY") = Entry(BlockCollection, "EMPTY")]_vars

\* one entry was written, another is as constructed, and a later block was
\* left unfinished
C9_Witness ==
    /\ pc = "loop"
    /\ Entry(BlockCollection, "EMPTY") = {DefaultFaces}
    /\ "WATER" \in DOMAIN BlockCollection
    /\ "GRASS" \notin DOMAIN BlockCollection
    /\ currBlockType = "GRASS" /\ coordCount = 3

====
